---- MODULE Spec2Model ----
(***************************************************************************)
(* Doctor Scheduler v8 (src/app.py): the /generate handler, i.e. the       *)
(* rotation-based assignment engine with its biweekly staffing cadence.    *)
(*                                                                         *)
(* Dates are day offsets from the request's start date (start = 0); the    *)
(* start date itself is represented by its weekday, form.startDow.  A date *)
(* string "%Y-%m-%d" is represented by the offset it denotes.  A row is    *)
(* the record [date, assigned, Flexible], `assigned` being the dictionary  *)
(* merged into the row by row.update(assigned_today); service labels are   *)
(* taken to differ from the row's own keys (date, date_label, Flexible)    *)
(* and doctor names from the outcomes "OFF" and "UNFILLED".                *)
(***************************************************************************)
EXTENDS Integers, Sequences, FiniteSets, TLC

VARIABLES
    form,             \* the submitted request (request.form), never modified
    pc,               \* position of the handler
    services,         \* services          (app.py:389)
    doctors,          \* doctors           (app.py:390)
    unavailable,      \* cfg.unavailable   (app.py:80)
    service_days_2wk, \* cfg.service_days_2wk (app.py:94)
    end_date,         \* cfg.end_date as an offset from the start date
    rows,             \* rows              (app.py:422)
    flex_counts,      \* flex_counts       (app.py:423)
    rotations,        \* rotations         (app.py:424)
    cur,              \* iter_workdays' cursor (app.py:35)
    day,              \* the day being processed (app.py:427)
    svc_ix,           \* position of `for svc in services` (app.py:435)
    available_today,  \* app.py:431
    used_doctors,     \* app.py:432
    assigned_today,   \* app.py:433
    other,            \* the locals of a second, suspended call of the handler
    yielded,          \* the dates iter_workdays has yielded to a bare consumer
    turns             \* iterations of the while loop of app.py:449 so far

vars == <<form, pc, services, doctors, unavailable, service_days_2wk, end_date,
          rows, flex_counts, rotations, cur, day, svc_ix, available_today,
          used_doctors, assigned_today, other, yielded, turns>>

(***************************************************************************)
(* Bounds of the model and the families of requests explored.              *)
(***************************************************************************)
MaxSpan == 3
MaxLongSpan == 14
MaxUnavail == 2

DoctorNames == <<"A", "B", "C">>
AllWeek == {0, 1, 2, 3, 4}
EmptyMap == [x \in {} |-> 0]

\* No second call of the handler is in progress.
NoRun == [pc |-> "none"]

Range(s) == {s[i] : i \in 1..Len(s)}

\* The sdw|svc|w|dow form keys whose last value is "1", as <<svc, w, dow>>.
Sdw(svc, w0, w1) == {<<svc, 0, d>> : d \in w0} \cup {<<svc, 1, d>> : d \in w1}

DoctorForms == {<<"A">>, <<"A", "B">>, <<"C", "A", "B">>, <<"A", "B", "A">>}
ServiceForms == {<<"CT">>, <<"CT", "MR">>, <<"CT", "CT">>}
CadenceForms ==
    { Sdw("CT", AllWeek, AllWeek) \cup Sdw("MR", AllWeek, AllWeek),
      Sdw("CT", {0, 2, 4}, {1, 3}) \cup Sdw("MR", AllWeek, AllWeek),
      Sdw("CT", AllWeek, AllWeek) \cup Sdw("MR", {1, 3}, {}) }

UnavailForms(docs, span) ==
    {u \in SUBSET (Range(docs) \X (0..span)) : Cardinality(u) <= MaxUnavail}

\* Short ranges with every small unavailability pattern.
RichRequests ==
    UNION {
        {[startDow |-> sd, span |-> MaxSpan, services |-> sv, doctors |-> dl,
          u |-> u, sdw |-> cf, overrides |-> {}] :
            sd \in {0, 2, 4}, sv \in ServiceForms, cf \in CadenceForms,
            u \in UnavailForms(dl, MaxSpan)} : dl \in DoctorForms}

\* Ranges of every length up to two weeks and a day, from every weekday.
LongRequests ==
    {[startDow |-> sd, span |-> sp, services |-> sv, doctors |-> <<"A", "B">>,
      u |-> {}, sdw |-> cf, overrides |-> {}] :
        sd \in 0..6, sp \in 0..MaxLongSpan, sv \in {<<"CT">>, <<"MR", "CT">>},
        cf \in CadenceForms \cup {{}}}

\* Ranges of every length with three doctors, all available, from a Monday.
TeamRequests ==
    {[startDow |-> 0, span |-> sp, services |-> sv,
      doctors |-> <<"C", "A", "B">>, u |-> {}, sdw |-> cf, overrides |-> {}] :
        sp \in 0..MaxLongSpan, sv \in {<<"CT">>, <<"CT", "MR">>},
        cf \in CadenceForms}

\* Requests that parse_config or the form parsing rejects.
BadRequests ==
    {[startDow |-> 0, span |-> sp, services |-> sv, doctors |-> dl,
      u |-> {}, sdw |-> cf, overrides |-> {}] :
        sp \in {-1, 1}, sv \in {<<"">>, <<"CT">>}, dl \in {<<>>, <<"A", "">>},
        cf \in {{}, {<<"CT", 2, 0>>}}}

\* Requests with form keys the handler accepts without checking them: a
\* weekday number that is no weekday, and per-date ON/OFF flags
\* <<date, service, on>>, which no line of the handler reads.
UncheckedRequests ==
    {[startDow |-> 0, span |-> 1, services |-> <<"CT", "MR">>,
      doctors |-> <<"A", "B">>, u |-> {}, sdw |-> cf, overrides |-> ov] :
        cf \in {Sdw("CT", {0, 9}, {}) \cup Sdw("MR", AllWeek, AllWeek),
                Sdw("CT", {0}, {}) \cup Sdw("MR", AllWeek, AllWeek)},
        ov \in SUBSET ({0, 1} \X {"CT"} \X {TRUE, FALSE})}

Requests ==
    RichRequests \cup LongRequests \cup TeamRequests \cup BadRequests
        \cup UncheckedRequests

(***************************************************************************)
(* Helpers of the handler.                                                 *)
(***************************************************************************)
\* [s.strip() for s in ... if s.strip()]: blank entries are dropped.
NonBlank(list) == SelectSeq(list, LAMBDA s : s # "")

\* date.weekday() of the date `d` days after the start date.
Weekday(d) == (form.startDow + d) % 7

\* iter_workdays' loop condition: cur <= end
InRange(c, e) == c <= e

\* Variant: Saturday counted as a working day.
IsWorkday_WithSaturday(d) == Weekday(d) <= 5

\* iter_workdays' filter: cur.weekday() < 5
IsWorkday(d) == Weekday(d) < 5

\* Variant: the parity of the calendar week (weeks starting on Monday).
WeekIx_CalendarWeek(d) == ((form.startDow + d) \div 7) % 2

\* week_ix = ((day - start_d).days // 7) % 2
WeekIx(d) == (d \div 7) % 2

\* service_days_2wk[svc][int(w)].add(int(dow)) over the sdw keys of services.
ParseServiceDays(svcs, sdw) ==
    [s \in Range(svcs) |->
        [w \in {0, 1} |-> {k[3] : k \in {x \in sdw : x[1] = s /\ x[2] = w}}]]

\* parse_config's normalisation: a service with an entry in service_days_2wk
\* keeps its week sets (absent weeks are empty), any other service gets the
\* weekly service_days set, by default Monday to Friday, in both weeks.
NormalizeServiceDays(svcs, sd2_in, sd_weekly) ==
    [s \in Range(svcs) |->
        IF s \in DOMAIN sd2_in
        THEN [w \in {0, 1} |->
                IF w \in DOMAIN sd2_in[s] THEN sd2_in[s][w] ELSE {}]
        ELSE [w \in {0, 1} |->
                IF s \in DOMAIN sd_weekly THEN sd_weekly[s] ELSE AllWeek]]

\* A sdw key of a listed service whose week is neither 0 nor 1: KeyError.
MalformedCadence(svcs, sdw) ==
    \E k \in sdw : k[1] \in Range(svcs) /\ k[2] \notin {0, 1}

\* unavailable[doc].append(datestr) for doc in doctors; normalised to sets.
ParseUnavailable(docs, u) ==
    [d \in Range(docs) |-> {k[2] : k \in {x \in u : x[1] = d}}]

\* parse_basic's and the form parsing's failures.
ConfigError(f) ==
    \/ f.span < 0
    \/ NonBlank(f.services) = <<>>
    \/ NonBlank(f.doctors) = <<>>
    \/ MalformedCadence(NonBlank(f.services), f.sdw)

\* Variant: the unavailable dates are not consulted.
AvailableToday_Everyone(docs, unav, d) == Range(docs)

\* available_today = {d for d in cfg.doctors if day_str not in unavailable[d]}
AvailableToday(docs, unav, d) ==
    {x \in Range(docs) : d \notin (IF x \in DOMAIN unav THEN unav[x] ELSE {})}

\* Variant: a per-date flag of the request for (day, svc) decides.
IsOn_WithOverride(sd2, svc, dow, week_ix) ==
    IF \E o \in form.overrides : o[1] = day /\ o[2] = svc
    THEN \E o \in form.overrides : o[1] = day /\ o[2] = svc /\ o[3]
    ELSE dow \in sd2[svc][week_ix]

\* Variant: the week-0 set is used in both weeks.
IsOn_WeekZeroOnly(sd2, svc, dow, week_ix) ==
    IF svc \in DOMAIN sd2 /\ 0 \in DOMAIN sd2[svc]
    THEN dow \in sd2[svc][0]
    ELSE dow \in AllWeek

\* on = dow in cfg.service_days_2wk.get(svc, {}).get(week_ix, set([0,1,2,3,4]))
IsOn(sd2, svc, dow, week_ix) ==
    IF svc \in DOMAIN sd2 /\ week_ix \in DOMAIN sd2[svc]
    THEN dow \in sd2[svc][week_ix]
    ELSE dow \in AllWeek

\* Variant: doctors already used today stay candidates.
Candidates_KeepsUsed(rot, avail, used) ==
    LET all == [i \in 1..Len(rot) |-> <<rot[i], i - 1>>]
    IN  SelectSeq(all, LAMBDA t : t[1] \in avail)

\* candidates = [(doc, idx) for idx, doc in enumerate(rot) if ...]
Candidates(rot, avail, used) ==
    LET all == [i \in 1..Len(rot) |-> <<rot[i], i - 1>>]
    IN  SelectSeq(all, LAMBDA t : t[1] \in avail /\ t[1] \notin used)

\* Variant: the lowest flexible count first.
KeyLeq_LowestFirst(flex, a, b) ==
    \/ flex[a[1]] < flex[b[1]]
    \/ flex[a[1]] = flex[b[1]] /\ a[2] <= b[2]

\* Sort key (-flex_counts[doc], idx), compared as Python compares tuples.
KeyLeq(flex, a, b) ==
    \/ flex[a[1]] > flex[b[1]]
    \/ flex[a[1]] = flex[b[1]] /\ a[2] <= b[2]

\* Variant: the list is not sorted, the first in rotation order is taken.
Chosen_FirstInRotation(cands, flex) == cands[1][1]

\* candidates.sort(key=...); chosen = candidates[0][0]
Chosen(cands, flex) ==
    LET first == CHOOSE i \in 1..Len(cands) :
                    \A j \in 1..Len(cands) : KeyLeq(flex, cands[i], cands[j])
    IN  cands[first][1]

\* Variant: the deque is left as it is.
RotateLeft_NoTurn(q) == q

\* deque.rotate(-1)
RotateLeft(q) == IF q = <<>> THEN q ELSE Tail(q) \o <<Head(q)>>

\* while rot[0] != chosen: rot.rotate(-1)
RECURSIVE RotateUntil(_, _)
RotateUntil(q, chosen) ==
    IF Head(q) = chosen THEN q ELSE RotateUntil(RotateLeft(q), chosen)

\* Variant: the chosen doctor is taken off the front and not put back.
Advance_DropsChosen(rot, chosen) == Tail(RotateUntil(rot, chosen))

\* The loop, then one more rot.rotate(-1).
Advance(rot, chosen) == RotateLeft(RotateUntil(rot, chosen))

\* list(S): the elements of a set in the order its iteration yields them,
\* which the language leaves open.
ListOf(S) == {l \in [1..Cardinality(S) -> S] : Range(l) = S}

\* Variant: the list is left in iteration order.
Sorted_IterationOrder(l) == l

\* sorted(l) for a list of distinct doctor names: ascending by name.
Sorted(l) == SelectSeq(DoctorNames, LAMBDA x : x \in Range(l))

\* Variant: the used doctors are not subtracted.
FlexibleToday_AllAvailable(avail, used) == avail

\* available_today - used_doctors
FlexibleToday(avail, used) == avail \ used

\* for doc in flexible_today: flex_counts[doc] += 1
RecordFlexible(flex, flexible) ==
    [d \in DOMAIN flex |-> IF d \in Range(flexible) THEN flex[d] + 1 ELSE flex[d]]

\* assigned_today[svc] = value
Put(map, key, value) ==
    [k \in DOMAIN map \cup {key} |-> IF k = key THEN value ELSE map[k]]

(***************************************************************************)
(* The handler.                                                            *)
(***************************************************************************)
Init ==
    /\ form \in Requests
    /\ pc = "request"
    /\ services = <<>>
    /\ doctors = <<>>
    /\ unavailable = EmptyMap
    /\ service_days_2wk = EmptyMap
    /\ end_date = 0
    /\ rows = <<>>
    /\ flex_counts = EmptyMap
    /\ rotations = EmptyMap
    /\ cur = 0
    /\ day = 0
    /\ svc_ix = 1
    /\ available_today = {}
    /\ used_doctors = {}
    /\ assigned_today = EmptyMap
    /\ other = NoRun
    /\ yielded = <<>>
    /\ turns = 0

\* An exception before the loop: Response("Error: ...", status=400).
Reject ==
    /\ pc = "request"
    /\ ConfigError(form)
    /\ pc' = "error"
    /\ UNCHANGED <<form, services, doctors, unavailable, service_days_2wk,
                   end_date, rows, flex_counts, rotations, cur, day, svc_ix,
                   available_today, used_doctors, assigned_today>>
    /\ UNCHANGED <<other, yielded, turns>>

\* Form parsing, parse_config and the initialisation of the run.
Setup ==
    /\ pc = "request"
    /\ ~ConfigError(form)
    /\ services' = NonBlank(form.services)
    /\ doctors' = NonBlank(form.doctors)
    /\ unavailable' = ParseUnavailable(doctors', form.u)
    /\ service_days_2wk' =
        NormalizeServiceDays(services', ParseServiceDays(services', form.sdw),
                             EmptyMap)
    /\ end_date' = form.span
    /\ rows' = <<>>
    /\ flex_counts' = [d \in Range(doctors') |-> 0]
    /\ rotations' = [s \in Range(services') |-> doctors']
    /\ cur' = 0
    /\ pc' = "iter"
    /\ UNCHANGED <<form, day, svc_ix, available_today, used_doctors,
                   assigned_today>>
    /\ UNCHANGED <<other, yielded, turns>>

\* iter_workdays: a Saturday or Sunday is passed over.
SkipWeekend ==
    /\ pc = "iter"
    /\ InRange(cur, end_date)
    /\ ~IsWorkday(cur)
    /\ cur' = cur + 1
    /\ UNCHANGED <<form, pc, services, doctors, unavailable, service_days_2wk,
                   end_date, rows, flex_counts, rotations, day, svc_ix,
                   available_today, used_doctors, assigned_today>>
    /\ UNCHANGED <<other, yielded, turns>>

\* iter_workdays yields a working day; the head of the loop body.
BeginDay ==
    /\ pc = "iter"
    /\ InRange(cur, end_date)
    /\ IsWorkday(cur)
    /\ day' = cur
    /\ available_today' = AvailableToday(doctors, unavailable, cur)
    /\ used_doctors' = {}
    /\ assigned_today' = EmptyMap
    /\ svc_ix' = 1
    /\ pc' = "svc"
    /\ UNCHANGED <<form, services, doctors, unavailable, service_days_2wk,
                   end_date, rows, flex_counts, rotations, cur>>
    /\ UNCHANGED <<other, yielded, turns>>

\* The service is off cadence today.
ServiceOff ==
    /\ pc = "svc"
    /\ svc_ix <= Len(services)
    /\ LET svc == services[svc_ix] IN
        /\ ~IsOn(service_days_2wk, svc, Weekday(day), WeekIx(day))
        /\ assigned_today' = Put(assigned_today, svc, "OFF")
    /\ svc_ix' = svc_ix + 1
    /\ UNCHANGED <<form, pc, services, doctors, unavailable, service_days_2wk,
                   end_date, rows, flex_counts, rotations, cur, day,
                   available_today, used_doctors>>
    /\ UNCHANGED <<other, yielded, turns>>

\* The service is on and nobody is left for it.
ServiceUnfilled ==
    /\ pc = "svc"
    /\ svc_ix <= Len(services)
    /\ LET svc == services[svc_ix] IN
        /\ IsOn(service_days_2wk, svc, Weekday(day), WeekIx(day))
        /\ Candidates(rotations[svc], available_today, used_doctors) = <<>>
        /\ assigned_today' = Put(assigned_today, svc, "UNFILLED")
    /\ svc_ix' = svc_ix + 1
    /\ UNCHANGED <<form, pc, services, doctors, unavailable, service_days_2wk,
                   end_date, rows, flex_counts, rotations, cur, day,
                   available_today, used_doctors>>
    /\ UNCHANGED <<other, yielded, turns>>

\* The service is on and gets the first candidate of the sorted list.
ServiceAssign ==
    /\ pc = "svc"
    /\ svc_ix <= Len(services)
    /\ LET svc == services[svc_ix]
           cands == Candidates(rotations[svc], available_today, used_doctors)
       IN
        /\ IsOn(service_days_2wk, svc, Weekday(day), WeekIx(day))
        /\ cands # <<>>
        /\ LET chosen == Chosen(cands, flex_counts) IN
            /\ assigned_today' = Put(assigned_today, svc, chosen)
            /\ used_doctors' = used_doctors \cup {chosen}
            /\ rotations' = [rotations EXCEPT ![svc] = Advance(@, chosen)]
    /\ svc_ix' = svc_ix + 1
    /\ UNCHANGED <<form, pc, services, doctors, unavailable, service_days_2wk,
                   end_date, rows, flex_counts, cur, day, available_today>>
    /\ UNCHANGED <<other, yielded, turns>>

\* After the services: the flexible doctors, their counters, the row.
EndDay ==
    /\ pc = "svc"
    /\ svc_ix > Len(services)
    /\ \E l \in ListOf(FlexibleToday(available_today, used_doctors)) :
        LET flexible_today == Sorted(l) IN
            /\ flex_counts' = RecordFlexible(flex_counts, flexible_today)
            /\ rows' = Append(rows, [date |-> day, assigned |-> assigned_today,
                                     Flexible |-> flexible_today])
    /\ cur' = cur + 1
    /\ pc' = "iter"
    /\ UNCHANGED <<form, services, doctors, unavailable, service_days_2wk,
                   end_date, rotations, day, svc_ix, available_today,
                   used_doctors, assigned_today>>
    /\ UNCHANGED <<other, yielded, turns>>

\* iter_workdays is exhausted: the rows are rendered.
Finish ==
    /\ pc = "iter"
    /\ ~InRange(cur, end_date)
    /\ pc' = "done"
    /\ UNCHANGED <<form, services, doctors, unavailable, service_days_2wk,
                   end_date, rows, flex_counts, rotations, cur, day, svc_ix,
                   available_today, used_doctors, assigned_today>>
    /\ UNCHANGED <<other, yielded, turns>>

Next ==
    \/ Reject
    \/ Setup
    \/ SkipWeekend
    \/ BeginDay
    \/ ServiceOff
    \/ ServiceUnfilled
    \/ ServiceAssign
    \/ EndDay
    \/ Finish

Spec == Init /\ [][Next]_vars

(***************************************************************************)
(* Two calls of the handler in one process.  Everything a call works on is *)
(* a local of the call (app.py:387-433), so a call that is not running is  *)
(* the record of its locals, and the scheduler may switch between the two  *)
(* calls before any step.                                                  *)
(***************************************************************************)
Locals ==
    [form |-> form, pc |-> pc, services |-> services, doctors |-> doctors,
     unavailable |-> unavailable, service_days_2wk |-> service_days_2wk,
     end_date |-> end_date, rows |-> rows, flex_counts |-> flex_counts,
     rotations |-> rotations, cur |-> cur, day |-> day, svc_ix |-> svc_ix,
     available_today |-> available_today, used_doctors |-> used_doctors,
     assigned_today |-> assigned_today]

\* The locals of a call that has not taken a step yet.
FreshRun(f) ==
    [form |-> f, pc |-> "request", services |-> <<>>, doctors |-> <<>>,
     unavailable |-> EmptyMap, service_days_2wk |-> EmptyMap, end_date |-> 0,
     rows |-> <<>>, flex_counts |-> EmptyMap, rotations |-> EmptyMap,
     cur |-> 0, day |-> 0, svc_ix |-> 1, available_today |-> {},
     used_doctors |-> {}, assigned_today |-> EmptyMap]

\* Variant: one process-wide rotations dictionary serves every call.
RunRotations_ProcessWide(resumed, running) == running

\* rotations is created by the call and reachable from it alone.
RunRotations(resumed, running) == resumed.rotations

\* The scheduler suspends the running call and resumes the other one.
Switch ==
    /\ other # NoRun
    /\ other.pc \notin {"done", "error"}
    /\ other' = Locals
    /\ form' = other.form
    /\ pc' = other.pc
    /\ services' = other.services
    /\ doctors' = other.doctors
    /\ unavailable' = other.unavailable
    /\ service_days_2wk' = other.service_days_2wk
    /\ end_date' = other.end_date
    /\ rows' = other.rows
    /\ flex_counts' = other.flex_counts
    /\ rotations' = RunRotations(other, rotations)
    /\ cur' = other.cur
    /\ day' = other.day
    /\ svc_ix' = other.svc_ix
    /\ available_today' = other.available_today
    /\ used_doctors' = other.used_doctors
    /\ assigned_today' = other.assigned_today
    /\ UNCHANGED <<yielded, turns>>

\* The requests given to the two calls.
TwoRunRequests ==
    {[startDow |-> sd, span |-> MaxSpan, services |-> <<"CT", "MR">>,
      doctors |-> dl, u |-> u,
      sdw |-> Sdw("CT", {0, 2, 4}, {1, 3}) \cup Sdw("MR", AllWeek, AllWeek),
      overrides |-> {}] :
        sd \in {0, 4}, dl \in {<<"A">>, <<"C", "A", "B">>},
        u \in {{}, {<<"A", 0>>}}}
    \cup {[startDow |-> 0, span |-> -1, services |-> <<"CT", "MR">>,
           doctors |-> <<"A">>, u |-> {}, sdw |-> {}, overrides |-> {}]}

InitTwoRuns ==
    /\ form \in TwoRunRequests
    /\ pc = "request"
    /\ services = <<>>
    /\ doctors = <<>>
    /\ unavailable = EmptyMap
    /\ service_days_2wk = EmptyMap
    /\ end_date = 0
    /\ rows = <<>>
    /\ flex_counts = EmptyMap
    /\ rotations = EmptyMap
    /\ cur = 0
    /\ day = 0
    /\ svc_ix = 1
    /\ available_today = {}
    /\ used_doctors = {}
    /\ assigned_today = EmptyMap
    /\ other \in {FreshRun(f) : f \in TwoRunRequests}
    /\ yielded = <<>>
    /\ turns = 0

NextTwoRuns ==
    \/ Next
    \/ Switch

SpecTwoRuns == InitTwoRuns /\ [][NextTwoRuns]_vars

(***************************************************************************)
(* iter_workdays on its own, driven by a consumer that collects what it    *)
(* yields (as the list comprehension of app.py:362-366 does), for any pair *)
(* of dates, the end date possibly before the start date.                  *)
(***************************************************************************)
MaxBackward == 3

InitCalendar ==
    /\ form \in {[startDow |-> sd, span |-> sp] :
                    sd \in 0..6, sp \in (-MaxBackward)..MaxLongSpan}
    /\ pc = "gen"
    /\ services = <<>>
    /\ doctors = <<>>
    /\ unavailable = EmptyMap
    /\ service_days_2wk = EmptyMap
    /\ end_date = form.span
    /\ rows = <<>>
    /\ flex_counts = EmptyMap
    /\ rotations = EmptyMap
    /\ cur = 0
    /\ day = 0
    /\ svc_ix = 1
    /\ available_today = {}
    /\ used_doctors = {}
    /\ assigned_today = EmptyMap
    /\ other = NoRun
    /\ yielded = <<>>
    /\ turns = 0

\* cur.weekday() >= 5: nothing is yielded; cur += 1
GenSkip ==
    /\ pc = "gen"
    /\ InRange(cur, end_date)
    /\ ~IsWorkday(cur)
    /\ cur' = cur + 1
    /\ UNCHANGED <<form, pc, services, doctors, unavailable, service_days_2wk,
                   end_date, rows, flex_counts, rotations, day, svc_ix,
                   available_today, used_doctors, assigned_today, other,
                   yielded, turns>>

\* yield cur; cur += 1
GenYield ==
    /\ pc = "gen"
    /\ InRange(cur, end_date)
    /\ IsWorkday(cur)
    /\ yielded' = Append(yielded, cur)
    /\ cur' = cur + 1
    /\ UNCHANGED <<form, pc, services, doctors, unavailable, service_days_2wk,
                   end_date, rows, flex_counts, rotations, day, svc_ix,
                   available_today, used_doctors, assigned_today, other,
                   turns>>

\* The loop condition fails: the generator returns (StopIteration).
GenReturn ==
    /\ pc = "gen"
    /\ ~InRange(cur, end_date)
    /\ pc' = "returned"
    /\ UNCHANGED <<form, services, doctors, unavailable, service_days_2wk,
                   end_date, rows, flex_counts, rotations, cur, day, svc_ix,
                   available_today, used_doctors, assigned_today, other,
                   yielded, turns>>

NextCalendar ==
    \/ GenSkip
    \/ GenYield
    \/ GenReturn

SpecCalendar == InitCalendar /\ [][NextCalendar]_vars

(***************************************************************************)
(* Vocabulary of the properties.                                           *)
(***************************************************************************)
IsDoctorOutcome(v) == v \notin {"OFF", "UNFILLED"}

Running == pc \in {"iter", "svc", "done"}

\* The doctors that are outcomes of a row.
Assigned(row) ==
    {row.assigned[s] : s \in {t \in DOMAIN row.assigned :
                                 IsDoctorOutcome(row.assigned[t])}}

\* A step that completes a day appends exactly one row.
AppendsRow == Len(rows') = Len(rows) + 1

LastRow == rows'[Len(rows')]

\* The step resolves the current service by choosing a doctor.
ChoosesDoctor == pc = "svc" /\ pc' = "svc" /\ used_doctors' # used_doctors

(***************************************************************************)
(* C1: on every day no doctor is the outcome of two distinct services of   *)
(* that day's row.                                                         *)
(***************************************************************************)
C1_NoDoubleBooking ==
    \A k \in 1..Len(rows) :
        \A s1, s2 \in DOMAIN rows[k].assigned :
            (/\ s1 # s2
             /\ IsDoctorOutcome(rows[k].assigned[s1])
             /\ IsDoctorOutcome(rows[k].assigned[s2]))
            => rows[k].assigned[s1] # rows[k].assigned[s2]

\* A row in which two distinct services both got a doctor while a third
\* doctor stayed flexible.
C1_Witness ==
    \E k \in 1..Len(rows) :
        /\ \E s1, s2 \in DOMAIN rows[k].assigned :
            /\ s1 # s2
            /\ IsDoctorOutcome(rows[k].assigned[s1])
            /\ IsDoctorOutcome(rows[k].assigned[s2])
        /\ rows[k].Flexible # <<>>

(***************************************************************************)
(* C2: a doctor whose unavailable-date set contains the day's date is no   *)
(* service's outcome in that day's row, is not in its flexible list, and   *)
(* keeps the flexible count it had before that day.                        *)
(***************************************************************************)
C2_UnavailableNeverServes ==
    [][AppendsRow =>
        \A d \in DOMAIN unavailable :
            LastRow.date \in unavailable[d] =>
                /\ d \notin Assigned(LastRow)
                /\ d \notin Range(LastRow.Flexible)
                /\ flex_counts'[d] = flex_counts[d]]_vars

\* A day somebody is unavailable on while a colleague serves and another
\* one is flexible.
C2_Witness ==
    \E k \in 1..Len(rows) :
        /\ \E d \in DOMAIN unavailable : rows[k].date \in unavailable[d]
        /\ Assigned(rows[k]) # {}
        /\ rows[k].Flexible # <<>>

(***************************************************************************)
(* C3: a service the cadence marks OFF for a day (the day's weekday is not *)
(* in the service's weekday set of that day's cadence week) has outcome    *)
(* "OFF" in that day's row, and a service that is ON never has.            *)
(***************************************************************************)
C3_OffExactlyWhenOffCadence ==
    \A k \in 1..Len(rows) :
        /\ DOMAIN rows[k].assigned = Range(services)
        /\ \A s \in Range(services) :
            LET d == rows[k].date
                off == Weekday(d) \notin service_days_2wk[s][WeekIx(d)]
            IN  off <=> rows[k].assigned[s] = "OFF"

\* A row with one service OFF and another one staffed.
C3_Witness ==
    \E k \in 1..Len(rows) :
        /\ \E s \in DOMAIN rows[k].assigned : rows[k].assigned[s] = "OFF"
        /\ Assigned(rows[k]) # {}

(***************************************************************************)
(* C4: when an ON service has an eligible candidate, the chosen doctor has *)
(* the maximum flexible count among the eligible ones, the counts being    *)
(* those accrued over the previous days, and among those of maximum count  *)
(* the smallest index in the service's current rotation.                   *)
(***************************************************************************)
Eligible(rot) ==
    {i \in 1..Len(rot) : rot[i] \in available_today /\ rot[i] \notin used_doctors}

FlexibleDaysSoFar(d) ==
    Cardinality({k \in 1..Len(rows) : d \in Range(rows[k].Flexible)})

C4_MaxFlexThenRotation ==
    [][(/\ pc = "svc"
        /\ svc_ix <= Len(services)
        /\ Weekday(day) \in service_days_2wk[services[svc_ix]][WeekIx(day)]
        /\ Eligible(rotations[services[svc_ix]]) # {})
       =>
        LET svc == services[svc_ix]
            rot == rotations[svc]
            c == assigned_today'[svc]
        IN  /\ ChoosesDoctor
            /\ \A d \in DOMAIN flex_counts : flex_counts[d] = FlexibleDaysSoFar(d)
            /\ \E i \in Eligible(rot) :
                /\ rot[i] = c
                /\ \A j \in Eligible(rot) :
                    /\ flex_counts[rot[j]] <= flex_counts[c]
                    /\ flex_counts[rot[j]] = flex_counts[c] => i <= j]_vars

\* The service just resolved got a doctor while a colleague with a smaller
\* count and one with the same count were still unused.
C4_Witness ==
    /\ pc = "svc"
    /\ svc_ix > 1
    /\ LET c == assigned_today[services[svc_ix - 1]] IN
        /\ c \in used_doctors
        /\ \E e \in available_today \ used_doctors :
            flex_counts[e] < flex_counts[c]
        /\ \E e \in available_today \ used_doctors :
            flex_counts[e] = flex_counts[c]

(***************************************************************************)
(* C5: every flexible count starts at 0, never decreases, and over a day   *)
(* grows by exactly 1 for a doctor who was available and assigned to no    *)
(* service that day and by 0 for every other doctor.                       *)
(***************************************************************************)
C5_FlexCounts ==
    [][/\ (pc = "request" /\ pc' = "iter") =>
            /\ DOMAIN flex_counts' = Range(doctors')
            /\ \A d \in DOMAIN flex_counts' : flex_counts'[d] = 0
       /\ pc # "request" =>
            /\ DOMAIN flex_counts' = DOMAIN flex_counts
            /\ \A d \in DOMAIN flex_counts :
                /\ flex_counts'[d] >= flex_counts[d]
                /\ flex_counts'[d] - flex_counts[d] =
                     IF /\ AppendsRow
                        /\ day \notin unavailable[d]
                        /\ d \notin used_doctors
                     THEN 1 ELSE 0]_vars

\* After two days one doctor has been flexible twice, another one never.
C5_Witness ==
    /\ Len(rows) = 2
    /\ \E d, e \in DOMAIN flex_counts : flex_counts[d] = 2 /\ flex_counts[e] = 0

(***************************************************************************)
(* Scenarios with a single service that is ON every working day and the    *)
(* doctor list [A, B].                                                     *)
(***************************************************************************)
OneServiceAlwaysOn ==
    /\ Running
    /\ doctors = <<"A", "B">>
    /\ Len(services) = 1
    /\ \A w \in {0, 1} : AllWeek \subseteq service_days_2wk[services[1]][w]

\* The outcome of the single service on the k-th working day.
Outcome(k) == rows[k].assigned[services[1]]

\* d is the second Monday-to-Friday date of the range.
IsSecondWorkday(d) ==
    /\ (form.startDow + d) % 7 \notin {5, 6}
    /\ Cardinality({e \in 0..(d - 1) : (form.startDow + e) % 7 \notin {5, 6}}) = 1

ScenarioA ==
    /\ OneServiceAlwaysOn
    /\ unavailable["A"] = {}
    /\ unavailable["B"] = {}

ScenarioB ==
    /\ OneServiceAlwaysOn
    /\ unavailable["B"] = {}
    /\ \E d \in 0..end_date : unavailable["A"] = {d} /\ IsSecondWorkday(d)

(***************************************************************************)
(* C6 as claimed: in scenario B (A unavailable on the second working day   *)
(* only) the day-2 outcome is B, the day-3 outcome is A, and A's flexible  *)
(* count is 0 after each of days 1, 2 and 3.                               *)
(***************************************************************************)
C6_ScenarioB_AsClaimed ==
    ScenarioB =>
        /\ Len(rows) >= 2 => Outcome(2) = "B"
        /\ Len(rows) >= 3 => Outcome(3) = "A"
        /\ Len(rows) \in 1..3 => flex_counts["A"] = 0

(***************************************************************************)
(* C6 amended: in scenario B the day-2 outcome is B and the day-3 outcome  *)
(* is B again (B's flexible count 1 exceeds A's 0); A's flexible count is  *)
(* 0 after days 1 and 2 and 1 after day 3.                                 *)
(***************************************************************************)
C6_ScenarioB_Amended ==
    ScenarioB =>
        /\ Len(rows) >= 1 => Outcome(1) = "A"
        /\ Len(rows) >= 2 => Outcome(2) = "B"
        /\ Len(rows) >= 3 => Outcome(3) = "B"
        /\ Len(rows) \in 1..2 => flex_counts["A"] = 0
        /\ Len(rows) = 3 => flex_counts["A"] = 1

\* Scenario B with its third working day completed.
C6_Witness == ScenarioB /\ Len(rows) = 3

(***************************************************************************)
(* C7 as claimed: advancing a service's rotation for the chosen doctor c   *)
(* yields the old sequence with c removed and appended at the end, so that *)
(* every pair of other doctors keeps its relative order.                   *)
(***************************************************************************)
MoveToBack(q, c) == SelectSeq(q, LAMBDA x : x # c) \o <<c>>

C7_AdvanceIsMoveToBack ==
    [][(ChoosesDoctor /\ Cardinality(Range(doctors)) = Len(doctors)) =>
        LET svc == services[svc_ix] IN
            rotations'[svc] = MoveToBack(rotations[svc], assigned_today'[svc])]_vars

(***************************************************************************)
(* C8: in scenario A (no unavailability) the service gets A on the odd     *)
(* working days and B on the even ones, however many days the range has,   *)
(* and after 4 days the flexible counts are A = 2 and B = 2.               *)
(***************************************************************************)
C8_StrictAlternation ==
    ScenarioA =>
        /\ \A k \in 1..Len(rows) :
            Outcome(k) = IF k % 2 = 1 THEN "A" ELSE "B"
        /\ Len(rows) = 4 => flex_counts["A"] = 2 /\ flex_counts["B"] = 2

\* Scenario A with six working days done, a weekend among them.
C8_Witness ==
    /\ ScenarioA
    /\ Len(rows) = 6
    /\ rows[6].date > 6

(***************************************************************************)
(* C9: the output has exactly one row per Monday-to-Friday date of         *)
(* [start, end], in strictly ascending date order, and no row for a        *)
(* Saturday or a Sunday.                                                   *)
(***************************************************************************)
MondayToFridayDates(span) ==
    SelectSeq([i \in 1..(span + 1) |-> i - 1],
              LAMBDA d : (form.startDow + d) % 7 \notin {5, 6})

C9_OneRowPerWorkday ==
    /\ pc = "done" =>
        [k \in 1..Len(rows) |-> rows[k].date] = MondayToFridayDates(form.span)
    /\ \A k \in 1..Len(rows) :
        /\ rows[k].date \in 0..form.span
        /\ (form.startDow + rows[k].date) % 7 \notin {5, 6}
        /\ k < Len(rows) => rows[k].date < rows[k + 1].date

\* A finished run over two weeks that skipped two weekends.
C9_Witness ==
    /\ pc = "done"
    /\ Len(rows) = 10
    /\ form.span = 13

(***************************************************************************)
(* C10: a service is ON on a working day exactly when the day's weekday is *)
(* in its weekday set for the cadence week, the week being 0 for the first *)
(* 7 days from the start date, 1 for the next 7, and so on alternately,    *)
(* whatever weekday the start date is.  With week-0 = {Mon,Wed,Fri},       *)
(* week-1 = {Tue,Thu} and a Monday start, the ON days of the first two     *)
(* weeks are Mon, Wed, Fri of the first and Tue, Thu of the second.        *)
(***************************************************************************)
SevenDayBlockParity(d) ==
    IF d < 7 THEN 0 ELSE IF d < 14 THEN 1 ELSE IF d < 21 THEN 0 ELSE 1

ScenarioD ==
    /\ Running
    /\ form.startDow = 0
    /\ "CT" \in Range(services)
    /\ service_days_2wk["CT"][0] = {0, 2, 4}
    /\ service_days_2wk["CT"][1] = {1, 3}

C10_BiweeklyCadence ==
    /\ \A k \in 1..Len(rows) :
        \A s \in DOMAIN rows[k].assigned :
            LET d == rows[k].date IN
                rows[k].assigned[s] # "OFF" <=>
                    (form.startDow + d) % 7
                        \in service_days_2wk[s][SevenDayBlockParity(d)]
    /\ (ScenarioD /\ pc = "done" /\ end_date >= 13) =>
        {rows[k].date : k \in {j \in 1..Len(rows) :
                                  /\ rows[j].date <= 13
                                  /\ rows[j].assigned["CT"] # "OFF"}}
            = {0, 2, 4, 8, 10}

\* A finished two-week run of scenario D.
C10_Witness == ScenarioD /\ pc = "done" /\ end_date >= 13

(***************************************************************************)
(* C11: on a day with k ON services and m available doctors, the first     *)
(* min(k, m) ON services of the service order get a doctor and every later *)
(* ON service is "UNFILLED"; an ON service is UNFILLED only when every     *)
(* available doctor is already used that day, and a day without available  *)
(* doctors has every ON service UNFILLED and an empty flexible list.       *)
(* The services are the entries of the service list, in list order.        *)
(***************************************************************************)
OnToday(i) ==
    Weekday(day) \in service_days_2wk[services[i]][WeekIx(day)]

OnServicesBefore(i) == Cardinality({j \in 1..(i - 1) : OnToday(j)})

C11_FirstServicesFilled ==
    [][/\ (pc = "svc" /\ svc_ix <= Len(services) /\ OnToday(svc_ix)) =>
            LET out == assigned_today'[services[svc_ix]]
                m == Cardinality(available_today)
            IN  /\ OnServicesBefore(svc_ix) < m =>
                    /\ out \in available_today \ used_doctors
                    /\ used_doctors' = used_doctors \cup {out}
                /\ OnServicesBefore(svc_ix) >= m =>
                    /\ out = "UNFILLED"
                    /\ available_today \subseteq used_doctors
                    /\ used_doctors' = used_doctors
                /\ Cardinality(used_doctors) =
                     IF OnServicesBefore(svc_ix) < m
                     THEN OnServicesBefore(svc_ix) ELSE m
       /\ (AppendsRow /\ available_today = {}) =>
            /\ LastRow.Flexible = <<>>
            /\ \A s \in DOMAIN LastRow.assigned :
                LastRow.assigned[s] \in {"OFF", "UNFILLED"}]_vars

\* One available doctor facing two ON services: the first is filled, the
\* second is UNFILLED.
C11_Witness ==
    /\ pc = "svc"
    /\ Len(services) = 2
    /\ svc_ix = 3
    /\ services[1] # services[2]
    /\ Cardinality(available_today) = 1
    /\ assigned_today[services[1]] \in available_today
    /\ assigned_today[services[2]] = "UNFILLED"

(***************************************************************************)
(* C12 as claimed: a service for which the request supplies no cadence     *)
(* configuration is ON on every working day in both cadence weeks, both    *)
(* when parse_config gets a configuration without cadence entries for it   *)
(* and when the /generate request carries no weekday selection for it.     *)
(***************************************************************************)
NoSelection(s) == \A k \in form.sdw : k[1] # s

C12_DefaultCadenceEveryPath ==
    /\ \A s \in Range(services) :
        \A w \in {0, 1} :
            NormalizeServiceDays(services, EmptyMap, EmptyMap)[s][w] = AllWeek
    /\ \A k \in 1..Len(rows) :
        \A s \in DOMAIN rows[k].assigned :
            NoSelection(s) => rows[k].assigned[s] # "OFF"

(***************************************************************************)
(* C13 as claimed: a request with the end date before the start date, an   *)
(* empty service list, an empty doctor list or a malformed cadence entry   *)
(* is rejected before any day is processed: no row is produced and a       *)
(* single failure is reported.  A cadence entry of a listed service is     *)
(* malformed when its week is not 0 or 1 or its weekday is no weekday.     *)
(***************************************************************************)
MalformedEntry(k) == k[2] \notin {0, 1} \/ k[3] \notin 0..6

InvalidRequest ==
    \/ form.span < 0
    \/ NonBlank(form.services) = <<>>
    \/ NonBlank(form.doctors) = <<>>
    \/ \E k \in form.sdw :
        k[1] \in Range(NonBlank(form.services)) /\ MalformedEntry(k)

C13_InvalidRequestRejected ==
    InvalidRequest => pc \in {"request", "error"} /\ rows = <<>>

(***************************************************************************)
(* C14: two runs of the handler on the same request yield the same rows:   *)
(* the same outcome of every service on every day and the same flexible    *)
(* list, in the same order, on every day.                                  *)
(***************************************************************************)
BothDone == pc = "done" /\ other # NoRun /\ other.pc = "done"

C14_SameRequestSameRows ==
    (BothDone /\ other.form = form) => other.rows = rows

\* Both runs of one request are done, and two doctors were flexible together
\* on some day.
C14_Witness ==
    /\ BothDone
    /\ other.form = form
    /\ \E k \in 1..Len(rows) : Len(rows[k].Flexible) >= 2

(***************************************************************************)
(* C15 as claimed: when the request carries a per-date override for a      *)
(* (date, service) pair, the service's ON/OFF status on that date is the   *)
(* override value whatever the weekday sets say; without an override the   *)
(* weekday sets decide.                                                    *)
(***************************************************************************)
OverridesFor(d, s) == {o \in form.overrides : o[1] = d /\ o[2] = s}

OnByCadence(d, s) == Weekday(d) \in service_days_2wk[s][WeekIx(d)]

C15_OverrideDecides ==
    \A k \in 1..Len(rows) :
        \A s \in DOMAIN rows[k].assigned :
            LET d == rows[k].date
                on == rows[k].assigned[s] # "OFF"
            IN  /\ \A o \in OverridesFor(d, s) :
                    Cardinality(OverridesFor(d, s)) = 1 => (on <=> o[3])
                /\ OverridesFor(d, s) = {} => (on <=> OnByCadence(d, s))

(***************************************************************************)
(* C15 amended: the handler has no per-date overrides; a per-date flag     *)
(* carried by the request is ignored, and on every date, with or without   *)
(* such a flag, the weekday's membership in the cadence week's set decides *)
(* the service's ON/OFF status.                                            *)
(***************************************************************************)
C15_CadenceAloneDecides ==
    \A k \in 1..Len(rows) :
        \A s \in DOMAIN rows[k].assigned :
            LET d == rows[k].date
                on == rows[k].assigned[s] # "OFF"
            IN  /\ OverridesFor(d, s) # {} => (on <=> OnByCadence(d, s))
                /\ OverridesFor(d, s) = {} => (on <=> OnByCadence(d, s))

\* A day whose service is ON by cadence under a flag saying OFF, followed by
\* a day whose service is OFF by cadence under a flag saying ON.
C15_Witness ==
    /\ Len(rows) = 2
    /\ \E s \in DOMAIN rows[1].assigned :
        /\ OverridesFor(rows[1].date, s) = {<<rows[1].date, s, FALSE>>}
        /\ rows[1].assigned[s] # "OFF"
        /\ OverridesFor(rows[2].date, s) = {<<rows[2].date, s, TRUE>>}
        /\ rows[2].assigned[s] = "OFF"

(***************************************************************************)
(* A run of the handler on its own, as a function of the request: the rows *)
(* and the final flexible counts of the loop of app.py:427-460.            *)
(***************************************************************************)
SoloRun(f) ==
    LET docs == NonBlank(f.doctors)
        svcs == NonBlank(f.services)
        unav == ParseUnavailable(docs, f.u)
        sd2 == NormalizeServiceDays(svcs, ParseServiceDays(svcs, f.sdw), EmptyMap)
        RECURSIVE Services(_, _, _, _)
        Services(i, d, avail, acc) ==
            IF i > Len(svcs) THEN acc
            ELSE LET svc == svcs[i]
                     cands == Candidates(acc.rotations[svc], avail, acc.used)
                 IN  IF ~IsOn(sd2, svc, (f.startDow + d) % 7, WeekIx(d))
                     THEN Services(i + 1, d, avail,
                            [acc EXCEPT !.assigned = Put(@, svc, "OFF")])
                     ELSE IF cands = <<>>
                     THEN Services(i + 1, d, avail,
                            [acc EXCEPT !.assigned = Put(@, svc, "UNFILLED")])
                     ELSE LET chosen == Chosen(cands, acc.flex) IN
                          Services(i + 1, d, avail,
                            [acc EXCEPT
                                !.assigned = Put(@, svc, chosen),
                                !.used = @ \cup {chosen},
                                !.rotations[svc] = Advance(@, chosen)])
        RECURSIVE Days(_, _)
        Days(d, st) ==
            IF ~InRange(d, f.span) THEN st
            ELSE IF (f.startDow + d) % 7 >= 5 THEN Days(d + 1, st)
            ELSE LET avail == AvailableToday(docs, unav, d)
                     acc == Services(1, d, avail,
                                [assigned |-> EmptyMap, used |-> {},
                                 rotations |-> st.rotations, flex |-> st.flex])
                     flexible ==
                        Sorted(CHOOSE l \in ListOf(FlexibleToday(avail, acc.used)) : TRUE)
                 IN  Days(d + 1,
                        [rows |-> Append(st.rows,
                                    [date |-> d, assigned |-> acc.assigned,
                                     Flexible |-> flexible]),
                         flex |-> RecordFlexible(st.flex, flexible),
                         rotations |-> acc.rotations])
    IN  Days(0, [rows |-> <<>>, flex |-> [x \in Range(docs) |-> 0],
                 rotations |-> [s \in Range(svcs) |-> docs]])

(***************************************************************************)
(* C16: of two runs whose steps interleave in any order, each ends with    *)
(* the rows and the flexible counts it produces when run alone, and no     *)
(* step of one run changes anything of the other run, its rotations and    *)
(* flexible counts included.                                               *)
(***************************************************************************)
C16_RunsIsolated ==
    [][/\ other' # other => (other' = Locals /\ Locals' = other)
       /\ (pc' = "done" /\ pc # "done") =>
            /\ rows' = SoloRun(form').rows
            /\ flex_counts' = SoloRun(form').flex
       /\ other'.pc = "done" =>
            /\ other'.rows = SoloRun(other'.form).rows
            /\ other'.flex_counts = SoloRun(other'.form).flex]_vars

\* Both runs are done, of different requests over the same doctors, each
\* with at least two rows.
C16_Witness ==
    /\ BothDone
    /\ other.form # form
    /\ other.form.doctors = form.doctors
    /\ Len(rows) >= 2
    /\ Len(other.rows) >= 2

(***************************************************************************)
(* C17: every service's rotation holds exactly the doctors of the doctor   *)
(* list, each as often as at the start of the run, and changes only in a   *)
(* step that assigns a doctor to that service: an OFF outcome, an UNFILLED *)
(* outcome and an assignment for another service leave it as it is.        *)
(***************************************************************************)
Occurrences(q, x) == Cardinality({i \in 1..Len(q) : q[i] = x})

SameDoctors(q, list) ==
    \A x \in Range(q) \cup Range(list) : Occurrences(q, x) = Occurrences(list, x)

C17_RotationFrame ==
    [][/\ pc' \in {"iter", "svc", "done"} =>
            /\ DOMAIN rotations' = Range(services')
            /\ \A s \in DOMAIN rotations' : SameDoctors(rotations'[s], doctors')
       /\ pc # "request" =>
            \A s \in DOMAIN rotations :
                rotations'[s] # rotations[s] =>
                    /\ ChoosesDoctor
                    /\ services[svc_ix] = s
                    /\ assigned_today'[s] \in Range(doctors)]_vars

\* On the first day the first service got a doctor and its rotation moved,
\* the second one is UNFILLED and its rotation is still the doctor list.
C17_Witness ==
    /\ pc = "svc"
    /\ rows = <<>>
    /\ Len(services) = 2
    /\ svc_ix = 3
    /\ services[1] # services[2]
    /\ assigned_today[services[1]] \in Range(doctors)
    /\ assigned_today[services[2]] = "UNFILLED"
    /\ rotations[services[1]] # doctors
    /\ rotations[services[2]] = doctors

OutcomeCount(row, d) ==
    Cardinality({s \in DOMAIN row.assigned : row.assigned[s] = d})

C19_AssignedXorFlexible ==
    \A k \in 1..Len(rows) :
        LET row == rows[k]
            avail == AvailableToday(doctors, unavailable, row.date)
        IN  /\ Range(row.Flexible) \subseteq avail
            /\ \A d \in avail :
                 IF d \in Range(row.Flexible)
                 THEN OutcomeCount(row, d) = 0
                 ELSE OutcomeCount(row, d) = 1

(***************************************************************************)
(* C20: if the request makes no doctor unavailable on any day, then after  *)
(* every day the flexible counts of any two doctors differ by at most 1.   *)
(***************************************************************************)
NoUnavailability ==
    \A t \in 0..end_date :
        AvailableToday(doctors, unavailable, t) = Range(doctors)

C20_FlexCountsWithinOne ==
    (Running /\ NoUnavailability) =>
        \A d, e \in DOMAIN flex_counts : flex_counts[d] - flex_counts[e] <= 1

\* Three doctors, all available throughout, after more than a week of rows
\* with one service OFF on some days: the counts are unequal and have grown.
C20_Witness ==
    /\ Running /\ NoUnavailability
    /\ Cardinality(DOMAIN flex_counts) = 3
    /\ Len(rows) >= 6
    /\ \E k \in 1..Len(rows) : \E s \in DOMAIN rows[k].assigned :
          rows[k].assigned[s] = "OFF"
    /\ \E d, e \in DOMAIN flex_counts :
          flex_counts[d] = flex_counts[e] + 1 /\ flex_counts[e] >= 2

(***************************************************************************)
(* The handler with the loop of app.py:449-450 taken one iteration at a    *)
(* time.  While the loop runs, `chosen` is the value that line 447 has     *)
(* just stored in assigned_today[svc].                                     *)
(***************************************************************************)
MaxTurns == 4

\* Short ranges from a Monday with at most one unavailable date, longer
\* ranges with three doctors, and the rejected requests.
StepRequests ==
    {r \in RichRequests : r.startDow = 0 /\ Cardinality(r.u) <= 1}
        \cup TeamRequests \cup BadRequests

InitSteps ==
    /\ form \in StepRequests
    /\ pc = "request"
    /\ services = <<>>
    /\ doctors = <<>>
    /\ unavailable = EmptyMap
    /\ service_days_2wk = EmptyMap
    /\ end_date = 0
    /\ rows = <<>>
    /\ flex_counts = EmptyMap
    /\ rotations = EmptyMap
    /\ cur = 0
    /\ day = 0
    /\ svc_ix = 1
    /\ available_today = {}
    /\ used_doctors = {}
    /\ assigned_today = EmptyMap
    /\ other = NoRun
    /\ yielded = <<>>
    /\ turns = 0

\* Lines 445-448: the sort, chosen, assigned_today[svc], used_doctors.
ChooseDoctor ==
    /\ pc = "svc"
    /\ svc_ix <= Len(services)
    /\ LET svc == services[svc_ix]
           cands == Candidates(rotations[svc], available_today, used_doctors)
       IN
        /\ IsOn(service_days_2wk, svc, Weekday(day), WeekIx(day))
        /\ cands # <<>>
        /\ assigned_today' = Put(assigned_today, svc, Chosen(cands, flex_counts))
        /\ used_doctors' = used_doctors \cup {Chosen(cands, flex_counts)}
    /\ turns' = 0
    /\ pc' = "rotate"
    /\ UNCHANGED <<form, services, doctors, unavailable, service_days_2wk,
                   end_date, rows, flex_counts, rotations, cur, day, svc_ix,
                   available_today, other, yielded>>

\* rot[0] == chosen, the condition that ends the loop
AtFront(rot, doc) == rot # <<>> /\ rot[1] = doc

\* One iteration of `while rot[0] != chosen: rot.rotate(-1)`.
RotateStep ==
    /\ pc = "rotate"
    /\ LET svc == services[svc_ix] IN
        /\ ~AtFront(rotations[svc], assigned_today[svc])
        /\ rotations' = [rotations EXCEPT ![svc] = RotateLeft(@)]
    /\ turns' = IF turns < MaxTurns THEN turns + 1 ELSE turns
    /\ UNCHANGED <<form, pc, services, doctors, unavailable, service_days_2wk,
                   end_date, rows, flex_counts, cur, day, svc_ix,
                   available_today, used_doctors, assigned_today, other,
                   yielded>>

\* The loop is left; the rot.rotate(-1) of line 451; the next service.
RotateLast ==
    /\ pc = "rotate"
    /\ LET svc == services[svc_ix] IN
        /\ AtFront(rotations[svc], assigned_today[svc])
        /\ rotations' = [rotations EXCEPT ![svc] = RotateLeft(@)]
    /\ svc_ix' = svc_ix + 1
    /\ pc' = "svc"
    /\ UNCHANGED <<form, services, doctors, unavailable, service_days_2wk,
                   end_date, rows, flex_counts, cur, day, available_today,
                   used_doctors, assigned_today, other, yielded, turns>>

NextSteps ==
    \/ Reject
    \/ Setup
    \/ SkipWeekend
    \/ BeginDay
    \/ ServiceOff
    \/ ServiceUnfilled
    \/ ChooseDoctor
    \/ RotateStep
    \/ RotateLast
    \/ EndDay
    \/ Finish

\* The handler is one sequential computation that nothing suspends: a step
\* that can be taken is taken.
SpecSteps == InitSteps /\ [][NextSteps]_vars /\ WF_vars(NextSteps)

(***************************************************************************)
(* C21: every run over a finite date range eventually reaches its terminal *)
(* state; while the rotation loop runs the chosen doctor is in the         *)
(* rotation and the loop has made at most as many iterations as there are  *)
(* doctors; a day that is begun is a working day later than the day of     *)
(* every row, with every earlier working day already in the rows, and at   *)
(* the end every working day of the range has its row; a row once appended *)
(* is never changed or removed.                                            *)
(***************************************************************************)
Terminal == pc \in {"done", "error"}

LoopBounded ==
    pc = "rotate" =>
        /\ assigned_today[services[svc_ix]]
             \in Range(rotations[services[svc_ix]])
        /\ turns <= Len(doctors)

HasRow(d) == \E k \in 1..Len(rows) : rows[k].date = d

DayOnce ==
    /\ (pc = "iter" /\ pc' = "svc") =>
          /\ IsWorkday(day')
          /\ \A k \in 1..Len(rows) : rows[k].date < day'
          /\ \A d \in 0..(day' - 1) : IsWorkday(d) => HasRow(d)
    /\ (pc = "iter" /\ pc' = "done") =>
          \A d \in 0..end_date : IsWorkday(d) => HasRow(d)

RowsKept ==
    /\ Len(rows') >= Len(rows)
    /\ SubSeq(rows', 1, Len(rows)) = rows

C21_RunTerminates ==
    /\ <>Terminal
    /\ []LoopBounded
    /\ [][DayOnce /\ RowsKept]_vars

\* A run is done with at least two rows, and its last rotation loop turned
\* the deque twice before the chosen doctor was at the front.
C21_Witness == pc = "done" /\ Len(rows) >= 2 /\ turns = 2

====
